---- MODULE Spec2Model ----
(***************************************************************************)
(* whombat: the generic CRUD base (BaseAPI) with its LRU object cache, and  *)
(* the soundevent conversion layer of evaluation sets and user runs.        *)
(*                                                                          *)
(* One API instance is modelled at a time.  The calls are issued one after  *)
(* the other (each action is one whole awaited call), except under          *)
(* SpecGetDelete and SpecGetUpdate, where they run as concurrent            *)
(* coroutines.  The database session is the table variables; the cache is   *)
(* self._cache.                                                             *)
(***************************************************************************)
EXTENDS Integers, Sequences, FiniteSets, TLC

VARIABLES
    db,         \* the table of the API's own model: a set of rows [id, uuid, val]
    cache,      \* self._cache (for sound event predictions the LRU cache of
                \* get_by_uuid): a sequence of [key, value], least recently used first
    ret,        \* the outcome of the last call: [op, arg, kind, obj]
    evicted,    \* the key the last call evicted from the cache (0: none)
    lastMut,    \* history: the last call that may change the database, [op, kind, obj]
    deleted,    \* history: the uuids whose row a delete removed and no create restored
    evaluation_set_tag,         \* EvaluationSetTag rows: evaluation_set_id -> its tag ids, in insertion order
    evaluation_set_annotation,  \* EvaluationSetAnnotation rows: a set of [evaluation_set_id, clip_annotation_id]
    clip_prediction,            \* ClipPrediction rows: the set of their uuids
    user_run_prediction,        \* UserRunPrediction rows: a set of [user_run_id, clip_prediction_id]
    user,                       \* User rows: the set of their ids
    sound_event_prediction_tag, \* SoundEventPredictionTag rows: a set of
                                \* [sound_event_prediction_id, tag_id, score]
    sound_event_prediction_by_id,   \* the LRU cache of get_by_id, as cache
    coroutines, \* the calls in progress, where the calls run as concurrent
                \* coroutines: coroutine -> [op, pc, pk, data, row, out]
    repeated    \* history: the last call repeated the call before it, which had returned

joins == <<evaluation_set_tag, evaluation_set_annotation, clip_prediction,
           user_run_prediction, user, sound_event_prediction_tag,
           sound_event_prediction_by_id, coroutines>>

vars == <<db, cache, ret, evicted, lastMut, deleted, joins, repeated>>

(***************************************************************************)
(* Bounds of the model.                                                     *)
(***************************************************************************)
\* Number of distinct UUID values the callers use.
NumUUIDs == 3
\* LRUCache(maxsize=1000), scaled down so that the cache fills and evicts.
maxsize == 2

UUIDs == 1..NumUUIDs
\* The values of the entity's own columns (name, description, user_id, ...).
Vals == {"a", "b"}

\* The API classes: UserRunAPI sets _model and _schema, EvaluationSetAPI does
\* not; "keyed" is a subclass that sets them and overrides _key_fn and
\* _get_key_column as well (neither class at hand does).
APIs == {"user_runs", "evaluation_sets", "keyed"}

(***************************************************************************)
(* Schema objects and rows.                                                 *)
(***************************************************************************)
NoObj == [id |-> 0, uuid |-> 0, val |-> "", tags |-> <<>>]
NoRow == [id |-> 0, uuid |-> 0, val |-> ""]

Ok(o) == [kind |-> "ok", obj |-> o]
Err(e) == [kind |-> e, obj |-> NoObj]

\* The input of a call in soundevent format (none for the other calls).
NoData == [uuid |-> 0]

\* The integer primary keys of the rows of a table.
Ids == 1..NumUUIDs

\* No EvaluationSetTag rows.
NoTags == [i \in Ids |-> <<>>]

\* self._schema.model_validate(row): the row's columns copied into a schema
\* object, its tags relationship loaded from the join rows of the row's id.
TagsOf(trs, id) == trs[id]

model_validate(row, trs) ==
    [id |-> row.id, uuid |-> row.uuid, val |-> row.val, tags |-> TagsOf(trs, row.id)]

(***************************************************************************)
(* whombat.api.common.utils: get_object, create_object, update_object,      *)
(* delete_object.  Their bodies are not part of the sources at hand; they   *)
(* are modelled from their uses and the docstrings of their callers.        *)
(***************************************************************************)
\* get_object(session, model, model.uuid == pk): the row, NoRow for NotFoundError.
get_object(rows, pk) ==
    IF \E r \in rows : r.uuid = pk
    THEN CHOOSE r \in rows : r.uuid = pk
    ELSE NoRow

\* The integer primary key given to a new row.  Ids are unique among the rows
\* of a table and unrelated to the uuids; the model numbers the rows against
\* their uuids, so that a row created again under a deleted uuid gets the
\* deleted row's id (as SQLite may do).
NextId(rows, data) == NumUUIDs + 1 - data.uuid

\* create_object(session, model, data): the new row; NoRow for
\* DuplicateObjectError (the uuid column is unique).
create_object(rows, data) ==
    IF \E r \in rows : r.uuid = data.uuid
    THEN NoRow
    ELSE [id |-> NextId(rows, data), uuid |-> data.uuid, val |-> data.val]

(***************************************************************************)
(* cachetools.LRUCache                                                      *)
(***************************************************************************)
CacheKeys(c) == {c[i].key : i \in 1..Len(c)}

\* pk in self._cache
CacheHas(c, k) == k \in CacheKeys(c)

CacheVal(c, k) == (CHOOSE e \in {c[i] : i \in 1..Len(c)} : e.key = k).value

Without(c, k) == SelectSeq(c, LAMBDA e : e.key # k)

\* self._cache[pk]: the value is returned and the key becomes the most recent.
CacheTouch(c, k) == Without(c, k) \o <<[key |-> k, value |-> CacheVal(c, k)]>>

\* The key LRUCache.__setitem__ evicts to make room for k (0: none).
Evictee(c, k) ==
    IF ~CacheHas(c, k) /\ Len(c) >= maxsize THEN c[1].key ELSE 0

\* A mutant: the cache as a plain dict, nothing is evicted.
CacheSetUnbounded(c, k, v) == Without(c, k) \o <<[key |-> k, value |-> v]>>

\* self._cache[pk] = value: a new key evicts the least recently used entries
\* until there is room; the key becomes the most recent.
CacheSet(c, k, v) ==
    IF CacheHas(c, k)
    THEN Without(c, k) \o <<[key |-> k, value |-> v]>>
    ELSE IF Len(c) >= maxsize
         THEN SubSeq(c, Len(c) - maxsize + 2, Len(c)) \o <<[key |-> k, value |-> v]>>
         ELSE c \o <<[key |-> k, value |-> v]>>

\* del self._cache[pk], pk present
CacheDel(c, k) == Without(c, k)

(***************************************************************************)
(* BaseAPI.  Each method is an operator from the cache c, the table rows    *)
(* and the tag join rows trs to the cache and table it leaves, its outcome  *)
(* out (the returned object or the raised error) and the evicted key ev.    *)
(***************************************************************************)
\* self._model and self._schema exist only where the class body sets them.
HasModel(api) == api \in {"user_runs", "keyed"}

\* BaseAPI._key_fn and BaseAPI._get_key_column raise NotImplementedError; a
\* subclass that creates many objects at once overrides them.
HasKeyFn(api) == api = "keyed"

Res(c, rows, out, ev) == [cache |-> c, db |-> rows, out |-> out, ev |-> ev]

\* A mutant: get stores the object it read under the row's integer id.
getKeyedById(api, c, rows, trs, pk) ==
    IF CacheHas(c, pk)
    THEN Res(CacheTouch(c, pk), rows, Ok(CacheVal(c, pk)), 0)
    ELSE IF get_object(rows, pk) = NoRow
         THEN Res(c, rows, Err("NotFoundError"), 0)
         ELSE LET data == model_validate(get_object(rows, pk), trs) IN
              Res(CacheSet(c, data.id, data), rows, Ok(data), Evictee(c, data.id))

\* A mutant: a cache hit is answered without an access of the cache entry.
getUntouched(api, c, rows, trs, pk) ==
    IF CacheHas(c, pk)
    THEN Res(c, rows, Ok(CacheVal(c, pk)), 0)
    ELSE IF get_object(rows, pk) = NoRow
         THEN Res(c, rows, Err("NotFoundError"), 0)
         ELSE LET data == model_validate(get_object(rows, pk), trs) IN
              Res(CacheSet(c, pk, data), rows, Ok(data), Evictee(c, pk))

get(api, c, rows, trs, pk) ==
    IF CacheHas(c, pk)
    THEN Res(CacheTouch(c, pk), rows, Ok(CacheVal(c, pk)), 0)
    ELSE IF ~HasModel(api)
         THEN Res(c, rows, Err("AttributeError"), 0)
         ELSE IF get_object(rows, pk) = NoRow
              THEN Res(c, rows, Err("NotFoundError"), 0)
              ELSE LET data == model_validate(get_object(rows, pk), trs) IN
                   Res(CacheSet(c, pk, data), rows, Ok(data), Evictee(c, pk))

\* A mutant: create caches and returns the object and never writes the row.
createCacheOnly(api, c, rows, trs, data) ==
    IF create_object(rows, data) = NoRow
    THEN Res(c, rows, Err("DuplicateObjectError"), 0)
    ELSE LET obj == model_validate(create_object(rows, data), trs) IN
         Res(CacheSet(c, obj.uuid, obj), rows, Ok(obj), Evictee(c, obj.uuid))

create(api, c, rows, trs, data) ==
    IF ~HasModel(api)
    THEN Res(c, rows, Err("AttributeError"), 0)
    ELSE IF create_object(rows, data) = NoRow
         THEN Res(c, rows, Err("DuplicateObjectError"), 0)
         ELSE LET row == create_object(rows, data)
                  obj == model_validate(row, trs)
              IN  Res(CacheSet(c, obj.uuid, obj), rows \cup {row}, Ok(obj),
                      Evictee(c, obj.uuid))

\* A mutant: update writes the row and leaves the cached object as it was.
updateUncached(api, c, rows, trs, obj, data) ==
    LET row == get_object(rows, obj.uuid) IN
    IF row = NoRow
    THEN Res(c, rows, Err("NotFoundError"), 0)
    ELSE LET updated == [row EXCEPT !.val = data.val] IN
         Res(c, (rows \ {row}) \cup {updated}, Ok(model_validate(updated, trs)), 0)

\* A mutant: update caches the caller's object before it looks for the row.
updateCacheFirst(api, c, rows, trs, obj, data) ==
    LET row == get_object(rows, obj.uuid) IN
    IF row = NoRow
    THEN Res(CacheSet(c, obj.uuid, obj), rows, Err("NotFoundError"),
             Evictee(c, obj.uuid))
    ELSE LET updated == [row EXCEPT !.val = data.val]
             new == model_validate(updated, trs)
         IN  Res(CacheSet(c, obj.uuid, new), (rows \ {row}) \cup {updated}, Ok(new),
                 Evictee(c, obj.uuid))

\* update_object raises NotFoundError when no row matches the condition.
update(api, c, rows, trs, obj, data) ==
    LET pk == obj.uuid
        row == get_object(rows, pk)
    IN  IF ~HasModel(api)
        THEN Res(c, rows, Err("AttributeError"), 0)
        ELSE IF row = NoRow
             THEN Res(c, rows, Err("NotFoundError"), 0)
             ELSE LET updated == [row EXCEPT !.val = data.val]
                      new == model_validate(updated, trs)
                  IN  Res(CacheSet(c, pk, new), (rows \ {row}) \cup {updated}, Ok(new),
                          Evictee(c, pk))

\* A mutant: delete removes the row and leaves the cache entry.
deleteKeepCache(api, c, rows, trs, obj) ==
    LET row == get_object(rows, obj.uuid) IN
    IF row = NoRow
    THEN Res(c, rows, Err("NotFoundError"), 0)
    ELSE Res(c, rows \ {row}, Ok(model_validate(row, trs)), 0)

\* delete_object raises NotFoundError when no row matches the condition;
\* del self._cache[pk] raises KeyError when pk is not cached, after the row
\* has been deleted.
delete(api, c, rows, trs, obj) ==
    LET pk == obj.uuid
        row == get_object(rows, pk)
    IN  IF ~HasModel(api)
        THEN Res(c, rows, Err("AttributeError"), 0)
        ELSE IF row = NoRow
             THEN Res(c, rows, Err("NotFoundError"), 0)
             ELSE IF ~CacheHas(c, pk)
                  THEN Res(c, rows \ {row}, Err("KeyError"), 0)
                  ELSE Res(CacheDel(c, pk), rows \ {row}, Ok(model_validate(row, trs)), 0)

\* self._update_cache(obj)
_update_cache(c, obj) == CacheSet(c, obj.uuid, obj)

\* create_objects(session, model, data): every element of data is inserted.
RECURSIVE create_objects(_, _)
create_objects(rows, ds) ==
    IF ds = <<>> THEN rows
    ELSE create_objects(rows \cup {create_object(rows, Head(ds))}, Tail(ds))

create_many(api, c, rows, ds) == Res(c, create_objects(rows, ds), Ok(NoObj), 0)

(***************************************************************************)
(* The inputs of the calls.                                                 *)
(***************************************************************************)
CreateSchema == [uuid : UUIDs, val : Vals]
UpdateSchema == [val : Vals]

\* The object a caller passes for uuid u: the stored object when the row
\* exists, an object built by hand otherwise.
HeldFor(rows, trs, u) ==
    IF get_object(rows, u) = NoRow
    THEN [id |-> 0, uuid |-> u, val |-> "a", tags |-> <<>>]
    ELSE model_validate(get_object(rows, u), trs)

\* The batches of create_many: one or two objects with new, distinct uuids.
Batches(rows) ==
    {ds \in UNION {[1..n -> CreateSchema] : n \in 1..2} :
        /\ \A i \in 1..Len(ds) : get_object(rows, ds[i].uuid) = NoRow
        /\ \A i, j \in 1..Len(ds) : ds[i].uuid = ds[j].uuid => i = j
        /\ \A i \in 1..Len(ds) : ds[i].val = "a"}

(***************************************************************************)
(* The calls on a UserRunAPI-like instance (one that sets _model, _schema). *)
(***************************************************************************)
Init ==
    /\ db = {}
    /\ cache = <<>>
    /\ ret = [op |-> "init", arg |-> 0, data |-> NoData, kind |-> "ok", obj |-> NoObj]
    /\ evicted = 0
    /\ lastMut = [op |-> "none", kind |-> "ok", obj |-> NoObj]
    /\ deleted = {}
    /\ evaluation_set_tag = NoTags
    /\ evaluation_set_annotation = {}
    /\ clip_prediction = {}
    /\ user_run_prediction = {}
    /\ user = {}
    /\ sound_event_prediction_tag = {}
    /\ sound_event_prediction_by_id = <<>>
    /\ coroutines = <<>>
    /\ repeated = FALSE

Outcome(op, arg, data, out) ==
    [op |-> op, arg |-> arg, data |-> data, kind |-> out.kind, obj |-> out.obj]

Returns(op, arg, r) ==
    /\ db' = r.db
    /\ cache' = r.cache
    /\ evicted' = r.ev
    /\ ret' = Outcome(op, arg, NoData, r.out)
    /\ UNCHANGED <<joins, repeated>>

Mutated(op, r) == lastMut' = [op |-> op, kind |-> r.out.kind, obj |-> r.out.obj]

Get(pk) ==
    /\ Returns("get", pk, get("user_runs", cache, db, evaluation_set_tag, pk))
    /\ UNCHANGED <<lastMut, deleted>>

Create(data) ==
    LET r == create("user_runs", cache, db, evaluation_set_tag, data) IN
    /\ Returns("create", data.uuid, r)
    /\ Mutated("create", r)
    /\ deleted' = IF r.out.kind = "ok" THEN deleted \ {data.uuid} ELSE deleted

CreateMany(ds) ==
    LET r == create_many("user_runs", cache, db, ds) IN
    /\ Returns("create_many", 0, r)
    /\ Mutated("create_many", r)
    /\ deleted' = deleted \ {ds[i].uuid : i \in 1..Len(ds)}

Update(obj, data) ==
    LET r == update("user_runs", cache, db, evaluation_set_tag, obj, data) IN
    /\ Returns("update", obj.uuid, r)
    /\ Mutated("update", r)
    /\ UNCHANGED deleted

Delete(obj) ==
    LET r == delete("user_runs", cache, db, evaluation_set_tag, obj) IN
    /\ Returns("delete", obj.uuid, r)
    /\ Mutated("delete", r)
    /\ deleted' = IF r.db # db THEN deleted \cup {obj.uuid} ELSE deleted

\* _update_cache is called by the subclasses with an object of a stored row.
UpdateCache(obj) ==
    /\ cache' = _update_cache(cache, obj)
    /\ evicted' = Evictee(cache, obj.uuid)
    /\ ret' = Outcome("_update_cache", obj.uuid, NoData, Ok(NoObj))
    /\ UNCHANGED <<db, lastMut, deleted, joins, repeated>>

Next ==
    \/ \E pk \in UUIDs : Get(pk)
    \/ \E data \in CreateSchema : Create(data)
    \/ \E ds \in Batches(db) : CreateMany(ds)
    \/ \E u \in UUIDs, data \in UpdateSchema : Update(HeldFor(db, evaluation_set_tag, u), data)
    \/ \E u \in UUIDs : Delete(HeldFor(db, evaluation_set_tag, u))
    \/ \E u \in UUIDs :
          get_object(db, u) # NoRow /\ UpdateCache(HeldFor(db, evaluation_set_tag, u))

Spec == Init /\ [][Next]_vars

(***************************************************************************)
(* Claims about BaseAPI, checked under Spec.                                *)
(***************************************************************************)
\* C1: in every reachable state the cache holds at most maxsize entries
\* (maxsize stands for the 1000 of LRUCache(maxsize=1000)).
C1_CacheBounded == Len(cache) <= maxsize

\* A write into a full cache has just evicted an entry.
C1_Witness == Len(cache) = maxsize /\ evicted # 0

\* C2: an object returned by get(pk) has uuid = pk.
C2_GetReturnsPk == (ret.op = "get" /\ ret.kind = "ok") => ret.obj.uuid = ret.arg

\* get has answered from the cache an object that update cached.
C2_Witness ==
    /\ ret.op = "get" /\ ret.kind = "ok" /\ evicted = 0
    /\ lastMut.op = "update" /\ lastMut.kind = "ok" /\ lastMut.obj.uuid = ret.arg

C4_DeleteExistingReturns ==
    [][\A u \in UUIDs :
          (ret'.op = "delete" /\ ret'.arg = u /\ get_object(db, u) # NoRow)
              => (ret'.kind = "ok" /\ ret'.obj.uuid = u /\ get_object(db', u) = NoRow)]_vars

\* C5: once a delete has removed the row of a uuid, every get of that uuid
\* raises NotFoundError until the uuid is created again.
C5_DeletedStaysNotFound ==
    (ret.op = "get" /\ ret.arg \in deleted) => ret.kind = "NotFoundError"

\* get has been called for the uuid that the last, successful delete removed.
C5_Witness ==
    /\ ret.op = "get" /\ ret.arg \in deleted
    /\ lastMut.op = "delete" /\ lastMut.kind = "ok" /\ lastMut.obj.uuid = ret.arg

\* C6: after update has returned an object, a get of its uuid with no
\* mutation in between returns an equal object.
C6_GetAfterUpdate ==
    (/\ ret.op = "get"
     /\ lastMut.op = "update" /\ lastMut.kind = "ok"
     /\ ret.arg = lastMut.obj.uuid)
        => (ret.kind = "ok" /\ ret.obj = lastMut.obj)

\* get has returned the object of an update that changed the row's value.
C6_Witness ==
    /\ ret.op = "get" /\ ret.kind = "ok"
    /\ lastMut.op = "update" /\ lastMut.kind = "ok"
    /\ ret.arg = lastMut.obj.uuid /\ ret.obj.val = "b"

\* C7: after create has returned object o, the table holds o's row, and a get
\* of o.uuid with no mutation in between returns an object equal to o.
C7_GetAfterCreate ==
    (lastMut.op = "create" /\ lastMut.kind = "ok")
        => /\ get_object(db, lastMut.obj.uuid) # NoRow
           /\ model_validate(get_object(db, lastMut.obj.uuid), evaluation_set_tag) = lastMut.obj
           /\ (ret.op = "get" /\ ret.arg = lastMut.obj.uuid)
                  => (ret.kind = "ok" /\ ret.obj = lastMut.obj)

\* get has read the created object back from the table, its cache entry
\* having been evicted by gets of other objects.
C7_Witness ==
    /\ lastMut.op = "create" /\ lastMut.kind = "ok"
    /\ ret.op = "get" /\ ret.arg = lastMut.obj.uuid /\ evicted # 0

(***************************************************************************)
(* EvaluationSetAPI.  The class sets neither _model nor _schema, so every   *)
(* inherited method that reads them raises AttributeError; add_tag,         *)
(* remove_tag and add_clip_annotation name their models themselves.         *)
(***************************************************************************)
\* Number of distinct UUID values the callers of EvaluationSetAPI use.
NumSets == 2

SetUUIDs == 1..NumSets
\* The ids of the rows of the tag table and of the clip annotation table.
TagIds == {1, 2}
AnnIds == {1}

\* tags.to_soundevent(tag): the tag's key and value.
tags_to_soundevent(t) == [key |-> "species", value |-> t]

\* tags.from_soundevent(session, t): the id of the tag with t's key and value.
tags_from_soundevent(t) == CHOOSE i \in TagIds : tags_to_soundevent(i) = t

\* clip_annotations.to_soundevent(a): the clip annotation under its uuid.
clip_annotations_to_soundevent(a) == [uuid |-> 100 + a]

\* The evaluation sets in soundevent format that callers pass.
TagSeqs == UNION {[1..n -> {tags_to_soundevent(t) : t \in TagIds}] : n \in 0..1}

EvaluationSetData ==
    [uuid : SetUUIDs, val : {"a"}, evaluation_tags : TagSeqs,
     clip_annotations : SUBSET {clip_annotations_to_soundevent(a) : a \in AnnIds}]

ERes(c, rows, trs, ars, out, ev) ==
    [cache |-> c, db |-> rows, tags |-> trs, anns |-> ars, out |-> out, ev |-> ev]

\* create_object(session, models.EvaluationSetAnnotation, ...): the pair is
\* the primary key of the join row, a second insert raises DuplicateObjectError.
add_clip_annotation(c, rows, trs, ars, obj, annotation) ==
    LET row == [evaluation_set_id |-> obj.id, clip_annotation_id |-> annotation] IN
    IF row \in ars
    THEN ERes(c, rows, trs, ars, Err("DuplicateObjectError"), 0)
    ELSE ERes(c, rows, trs, ars \cup {row}, Ok(obj), 0)

\* A mutant: add_tag returns the new object and does not cache it.
add_tagUncached(c, rows, trs, ars, obj, tag) ==
    IF \E i \in 1..Len(obj.tags) : obj.tags[i] = tag
    THEN ERes(c, rows, trs, ars, Err("ValueError"), 0)
    ELSE IF \E i \in 1..Len(trs[obj.id]) : trs[obj.id][i] = tag
         THEN ERes(c, rows, trs, ars, Err("DuplicateObjectError"), 0)
         ELSE LET new == [obj EXCEPT !.tags = Append(obj.tags, tag)] IN
              ERes(c, rows, [trs EXCEPT ![obj.id] = Append(trs[obj.id], tag)], ars,
                   Ok(new), 0)

\* create_object(session, models.EvaluationSetTag, ...) raises
\* DuplicateObjectError when the join row exists already.
add_tag(c, rows, trs, ars, obj, tag) ==
    IF \E i \in 1..Len(obj.tags) : obj.tags[i] = tag
    THEN ERes(c, rows, trs, ars, Err("ValueError"), 0)
    ELSE IF \E i \in 1..Len(trs[obj.id]) : trs[obj.id][i] = tag
         THEN ERes(c, rows, trs, ars, Err("DuplicateObjectError"), 0)
         ELSE LET new == [obj EXCEPT !.tags = Append(obj.tags, tag)] IN
              ERes(_update_cache(c, new), rows,
                   [trs EXCEPT ![obj.id] = Append(trs[obj.id], tag)], ars,
                   Ok(new), Evictee(c, obj.uuid))

\* delete_object(session, models.EvaluationSetTag, ...) raises NotFoundError
\* when the join row does not exist.
remove_tag(c, rows, trs, ars, obj, tag) ==
    IF ~\E i \in 1..Len(obj.tags) : obj.tags[i] = tag
    THEN ERes(c, rows, trs, ars, Err("ValueError"), 0)
    ELSE IF ~\E i \in 1..Len(trs[obj.id]) : trs[obj.id][i] = tag
         THEN ERes(c, rows, trs, ars, Err("NotFoundError"), 0)
         ELSE LET new == [obj EXCEPT !.tags = SelectSeq(obj.tags, LAMBDA t : t # tag)] IN
              ERes(_update_cache(c, new), rows,
                   [trs EXCEPT ![obj.id] = SelectSeq(trs[obj.id], LAMBDA t : t # tag)],
                   ars, Ok(new), Evictee(c, obj.uuid))

\* _create_from_soundevent: the evaluation set alone is created, from the
\* uuid, created_on, name and description of data.
_create_from_soundevent(api, c, rows, trs, data) ==
    create(api, c, rows, trs, [uuid |-> data.uuid, val |-> data.val])

\* from_soundevent: get, and create on NotFoundError (any other error of get
\* is not caught); the object is written to the cache and returned.
from_soundevent(api, c, rows, trs, data) ==
    LET g == get(api, c, rows, trs, data.uuid) IN
    IF g.out.kind = "ok"
    THEN Res(_update_cache(g.cache, g.out.obj), rows, g.out, g.ev)
    ELSE IF g.out.kind = "NotFoundError"
         THEN LET cr == _create_from_soundevent(api, g.cache, rows, trs, data) IN
              IF cr.out.kind = "ok"
              THEN Res(_update_cache(cr.cache, cr.out.obj), cr.db, cr.out, cr.ev)
              ELSE cr
         ELSE g

\* to_soundevent: the tags of obj and the clip annotations joined to obj.id
\* (get_clip_annotations with limit=-1), each converted.
to_soundevent(ars, obj) ==
    [uuid |-> obj.uuid, val |-> obj.val,
     evaluation_tags |-> [i \in 1..Len(obj.tags) |-> tags_to_soundevent(obj.tags[i])],
     clip_annotations |->
        {clip_annotations_to_soundevent(r.clip_annotation_id) :
            r \in {x \in ars : x.evaluation_set_id = obj.id}}]

\* The evaluation sets stored before the API instance is made: the database
\* outlives the process.
StoredSets(S) == {[id |-> NextId({}, [uuid |-> u]), uuid |-> u, val |-> "a"] : u \in S}

InitEvaluationSet ==
    /\ db \in {StoredSets(S) : S \in SUBSET SetUUIDs}
    /\ cache = <<>>
    /\ ret = [op |-> "init", arg |-> 0, data |-> NoData, kind |-> "ok", obj |-> NoObj]
    /\ evicted = 0
    /\ lastMut = [op |-> "none", kind |-> "ok", obj |-> NoObj]
    /\ deleted = {}
    /\ evaluation_set_tag = NoTags
    /\ evaluation_set_annotation = {}
    /\ clip_prediction = {}
    /\ user_run_prediction = {}
    /\ user = {}
    /\ sound_event_prediction_tag = {}
    /\ sound_event_prediction_by_id = <<>>
    /\ coroutines = <<>>
    /\ repeated = FALSE

\* The evaluation set objects a caller holds: read from the stored rows,
\* taken from the cache, or returned by the last call.
HeldSets ==
    {model_validate(r, evaluation_set_tag) : r \in db}
        \cup {cache[i].value : i \in 1..Len(cache)}
        \cup (IF ret.kind = "ok" /\ ret.obj # NoObj THEN {ret.obj} ELSE {})

EReturns(op, arg, data, r) ==
    /\ db' = r.db
    /\ cache' = r.cache
    /\ evicted' = r.ev
    /\ ret' = Outcome(op, arg, data, r.out)
    /\ UNCHANGED <<lastMut, deleted, clip_prediction, user_run_prediction, user,
                   sound_event_prediction_tag, sound_event_prediction_by_id, coroutines,
                   repeated>>

ESGet(pk) ==
    /\ EReturns("get", pk, NoData, get("evaluation_sets", cache, db, evaluation_set_tag, pk))
    /\ UNCHANGED <<evaluation_set_tag, evaluation_set_annotation>>

ESCreate(data) ==
    /\ EReturns("create", data.uuid, NoData,
                create("evaluation_sets", cache, db, evaluation_set_tag, data))
    /\ UNCHANGED <<evaluation_set_tag, evaluation_set_annotation>>

ESAddTag(obj, tag) ==
    LET r == add_tag(cache, db, evaluation_set_tag, evaluation_set_annotation, obj, tag) IN
    /\ EReturns("add_tag", obj.uuid, [obj |-> obj, tag |-> tag], r)
    /\ evaluation_set_tag' = r.tags
    /\ UNCHANGED evaluation_set_annotation

ESRemoveTag(obj, tag) ==
    LET r == remove_tag(cache, db, evaluation_set_tag, evaluation_set_annotation, obj, tag) IN
    /\ EReturns("remove_tag", obj.uuid, [obj |-> obj, tag |-> tag], r)
    /\ evaluation_set_tag' = r.tags
    /\ UNCHANGED evaluation_set_annotation

ESAddClipAnnotation(obj, annotation) ==
    LET r == add_clip_annotation(cache, db, evaluation_set_tag, evaluation_set_annotation,
                                 obj, annotation) IN
    /\ EReturns("add_clip_annotation", obj.uuid, NoData, r)
    /\ evaluation_set_annotation' = r.anns
    /\ UNCHANGED evaluation_set_tag

ESFromSoundevent(data) ==
    /\ EReturns("from_soundevent", data.uuid, data,
                from_soundevent("evaluation_sets", cache, db, evaluation_set_tag, data))
    /\ UNCHANGED <<evaluation_set_tag, evaluation_set_annotation>>

NextEvaluationSet ==
    \/ \E pk \in SetUUIDs : ESGet(pk)
    \/ \E data \in [uuid : SetUUIDs, val : Vals] : ESCreate(data)
    \/ \E obj \in HeldSets, tag \in TagIds : ESAddTag(obj, tag)
    \/ \E obj \in HeldSets, tag \in TagIds : ESRemoveTag(obj, tag)
    \/ \E obj \in HeldSets, a \in AnnIds : ESAddClipAnnotation(obj, a)
    \/ \E data \in EvaluationSetData : ESFromSoundevent(data)

SpecEvaluationSet == InitEvaluationSet /\ [][NextEvaluationSet]_vars

(***************************************************************************)
(* Claims about EvaluationSetAPI.from_soundevent, checked under            *)
(* SpecEvaluationSet.                                                       *)
(***************************************************************************)
\* C8 (as claimed): from_soundevent is an upsert by uuid: it returns an
\* evaluation set with data.uuid, creating exactly one row when none exists
\* and none otherwise, and a repeated call returns an equal object.
C8_FromSoundeventUpserts ==
    [][ret'.op = "from_soundevent" =>
          /\ ret'.kind = "ok"
          /\ ret'.obj.uuid = ret'.data.uuid
          /\ Cardinality({r \in db' : r.uuid = ret'.data.uuid}) = 1
          /\ IF get_object(db, ret'.data.uuid) = NoRow
             THEN db' = db \cup {get_object(db', ret'.data.uuid)}
             ELSE db' = db
          /\ (ret.op = "from_soundevent" /\ ret.kind = "ok" /\ ret.data = ret'.data)
                 => ret'.obj = ret.obj]_vars

\* C9 (as claimed): after from_soundevent returns, every tag of
\* data.evaluation_tags is attached to the stored evaluation set, every clip
\* annotation of data.clip_annotations is a member of it, and to_soundevent
\* of the result yields them (the tags and clip annotations that the stored
\* set had before are not held against the claim).
C9_FromSoundeventUpsertsGraph ==
    (ret.op = "from_soundevent" /\ ret.kind = "ok") =>
        LET stored == evaluation_set_tag[ret.obj.id]
            members == {clip_annotations_to_soundevent(r.clip_annotation_id) :
                           r \in {x \in evaluation_set_annotation :
                                     x.evaluation_set_id = ret.obj.id}}
            out == to_soundevent(evaluation_set_annotation, ret.obj)
        IN  /\ \A i \in 1..Len(ret.data.evaluation_tags) :
                   /\ \E j \in 1..Len(stored) :
                          stored[j] = tags_from_soundevent(ret.data.evaluation_tags[i])
                   /\ \E j \in 1..Len(out.evaluation_tags) :
                          out.evaluation_tags[j] = ret.data.evaluation_tags[i]
            /\ ret.data.clip_annotations \subseteq members
            /\ ret.data.clip_annotations \subseteq out.clip_annotations

(***************************************************************************)
(* UserRunAPI                                                               *)
(***************************************************************************)
\* Number of distinct UUID values the callers of UserRunAPI use.
NumRuns == 2

RunUUIDs == 1..NumRuns
\* The uuids of the clip predictions and the users that callers pass.
PredictionUUIDs == {1, 2}
Users == {"a"}

\* The prediction sets in soundevent format that callers pass.
PredictionSets ==
    [uuid : RunUUIDs,
     clip_predictions : UNION {[1..n -> PredictionUUIDs] : n \in 0..2}]

\* users.from_soundevent(session, user): the user is stored if it is not yet.
users_from_soundevent(us, usr) == [user |-> us \cup {usr}, id |-> usr]

\* clip_predictions.from_soundevent(session, clip_prediction): the clip
\* prediction is stored under its uuid if it is not yet; id is its row id.
clip_predictions_from_soundevent(cps, cp) ==
    [clip_prediction |-> cps \cup {cp}, id |-> 200 + cp]

URes(c, rows, cps, links, us, out, ev) ==
    [cache |-> c, db |-> rows, clip_prediction |-> cps, user_run_prediction |-> links,
     user |-> us, out |-> out, ev |-> ev]

\* A mutant: the DuplicateObjectError of create_object is always swallowed.
add_clip_predictionNeverRaises(links, obj, clip_prediction_id, raise_if_exists) ==
    LET row == [user_run_id |-> obj.id, clip_prediction_id |-> clip_prediction_id] IN
    [user_run_prediction |-> links \cup {row}, out |-> Ok(obj)]

\* A mutant: the DuplicateObjectError of create_object is not caught.
add_clip_predictionUncaught(links, obj, clip_prediction_id, raise_if_exists) ==
    LET row == [user_run_id |-> obj.id, clip_prediction_id |-> clip_prediction_id] IN
    IF row \in links
    THEN [user_run_prediction |-> links, out |-> Err("DuplicateObjectError")]
    ELSE [user_run_prediction |-> links \cup {row}, out |-> Ok(obj)]

\* add_clip_prediction: create_object raises DuplicateObjectError when the
\* (user run, clip prediction) row exists; it is raised again only on request.
add_clip_prediction(links, obj, clip_prediction_id, raise_if_exists) ==
    LET row == [user_run_id |-> obj.id, clip_prediction_id |-> clip_prediction_id] IN
    IF row \in links
    THEN IF raise_if_exists
         THEN [user_run_prediction |-> links, out |-> Err("DuplicateObjectError")]
         ELSE [user_run_prediction |-> links, out |-> Ok(obj)]
    ELSE [user_run_prediction |-> links \cup {row}, out |-> Ok(obj)]

\* update_from_soundevent: each clip prediction of data, in order, is
\* converted and linked to the run; an error ends the loop.
RECURSIVE update_from_soundevent(_, _, _, _)
update_from_soundevent(cps, links, obj, preds) ==
    IF preds = <<>>
    THEN [clip_prediction |-> cps, user_run_prediction |-> links, out |-> Ok(obj)]
    ELSE LET prediction == clip_predictions_from_soundevent(cps, Head(preds))
             added == add_clip_prediction(links, obj, prediction.id, FALSE)
         IN  IF added.out.kind # "ok"
             THEN [clip_prediction |-> prediction.clip_prediction,
                   user_run_prediction |-> added.user_run_prediction, out |-> added.out]
             ELSE update_from_soundevent(prediction.clip_prediction,
                                         added.user_run_prediction, added.out.obj,
                                         Tail(preds))

\* A mutant: a run that exists is fetched and returned as it is.
user_runs_from_soundeventFetchOnly(api, c, rows, trs, cps, links, us, data, usr) ==
    LET whombat_user == users_from_soundevent(us, usr)
        g == get(api, c, rows, trs, data.uuid)
        r == IF g.out.kind = "NotFoundError"
             THEN create(api, g.cache, rows, trs,
                         [uuid |-> data.uuid, val |-> whombat_user.id])
             ELSE g
    IN  IF r.out.kind # "ok" \/ g.out.kind = "ok"
        THEN URes(r.cache, r.db, cps, links, whombat_user.user, r.out, r.ev)
        ELSE LET upd == update_from_soundevent(cps, links, r.out.obj,
                                               data.clip_predictions)
             IN  URes(r.cache, r.db, upd.clip_prediction, upd.user_run_prediction,
                      whombat_user.user, upd.out, r.ev)

\* UserRunAPI.from_soundevent: the user is converted, the run is read, or
\* created on NotFoundError, and then updated from data.
user_runs_from_soundevent(api, c, rows, trs, cps, links, us, data, usr) ==
    LET whombat_user == users_from_soundevent(us, usr)
        g == get(api, c, rows, trs, data.uuid)
        r == IF g.out.kind = "NotFoundError"
             THEN create(api, g.cache, rows, trs,
                         [uuid |-> data.uuid, val |-> whombat_user.id])
             ELSE g
    IN  IF r.out.kind # "ok"
        THEN URes(r.cache, r.db, cps, links, whombat_user.user, r.out, r.ev)
        ELSE LET upd == update_from_soundevent(cps, links, r.out.obj,
                                               data.clip_predictions)
             IN  URes(r.cache, r.db, upd.clip_prediction, upd.user_run_prediction,
                      whombat_user.user, upd.out, r.ev)

UReturns(op, arg, data, r) ==
    /\ db' = r.db
    /\ cache' = r.cache
    /\ evicted' = r.ev
    /\ ret' = Outcome(op, arg, data, r.out)
    /\ UNCHANGED <<lastMut, deleted, evaluation_set_tag, evaluation_set_annotation,
                   sound_event_prediction_tag, sound_event_prediction_by_id, coroutines>>

URGet(pk) ==
    /\ UReturns("get", pk, NoData, get("user_runs", cache, db, evaluation_set_tag, pk))
    /\ repeated' = FALSE
    /\ UNCHANGED <<clip_prediction, user_run_prediction, user>>

\* add_clip_prediction called with a stored run and a stored clip prediction.
URAddClipPrediction(obj, cp, raise_if_exists) ==
    LET prediction == clip_predictions_from_soundevent(clip_prediction, cp)
        r == add_clip_prediction(user_run_prediction, obj, prediction.id, raise_if_exists)
        arg == [clip_prediction_id |-> prediction.id, raise_if_exists |-> raise_if_exists]
    IN
    /\ user_run_prediction' = r.user_run_prediction
    /\ ret' = Outcome("add_clip_prediction", obj.uuid, arg, r.out)
    /\ repeated' = (/\ ret.op = "add_clip_prediction" /\ ret.kind = "ok"
                    /\ ret.arg = obj.uuid /\ ret.data = arg)
    /\ UNCHANGED <<db, cache, evicted, lastMut, deleted, evaluation_set_tag,
                   evaluation_set_annotation, clip_prediction, user,
                   sound_event_prediction_tag, sound_event_prediction_by_id, coroutines>>

URFromSoundevent(data, usr) ==
    LET r == user_runs_from_soundevent("user_runs", cache, db, evaluation_set_tag,
                                       clip_prediction, user_run_prediction, user,
                                       data, usr)
        arg == [uuid |-> data.uuid, clip_predictions |-> data.clip_predictions,
                user |-> usr]
    IN  /\ UReturns("from_soundevent", data.uuid, arg, r)
        /\ clip_prediction' = r.clip_prediction
        /\ user_run_prediction' = r.user_run_prediction
        /\ user' = r.user
        /\ repeated' = (ret.op = "from_soundevent" /\ ret.kind = "ok" /\ ret.data = arg)

NextUserRun ==
    \/ \E pk \in RunUUIDs : URGet(pk)
    \/ \E data \in PredictionSets, usr \in Users : URFromSoundevent(data, usr)
    \/ \E row \in db, cp \in clip_prediction, raise_if_exists \in BOOLEAN :
          URAddClipPrediction(model_validate(row, evaluation_set_tag), cp, raise_if_exists)

SpecUserRun == Init /\ [][NextUserRun]_vars

\* C10: a second from_soundevent with the same prediction set and user, made
\* after the first returned, raises nothing, returns the same run, and leaves
\* the user runs, the run's clip prediction links and the clip predictions as
\* they were (no second run, no second link).
C10_FromSoundeventIdempotent ==
    [][(repeated' /\ ret'.op = "from_soundevent") =>
          /\ ret'.kind = "ok"
          /\ ret'.obj = ret.obj
          /\ db' = db
          /\ user_run_prediction' = user_run_prediction
          /\ clip_prediction' = clip_prediction
          /\ user' = user]_vars

\* from_soundevent has been repeated for a run with two clip predictions.
C10_Witness ==
    /\ repeated /\ ret.op = "from_soundevent" /\ ret.kind = "ok"
    /\ Cardinality({l \in user_run_prediction : l.user_run_id = ret.obj.id}) = 2

\* C11: when from_soundevent returns, the run it returns is the stored run
\* with data.uuid, every clip prediction of data.clip_predictions is linked to
\* that run, whether the call created the run or found it, and every link
\* that existed before the call still exists.
C11_FromSoundeventLinks ==
    [][(ret'.op = "from_soundevent" /\ ret'.kind = "ok") =>
          LET run == get_object(db', ret'.data.uuid) IN
          /\ run # NoRow
          /\ ret'.obj.uuid = ret'.data.uuid /\ ret'.obj.id = run.id
          /\ \A i \in 1..Len(ret'.data.clip_predictions) :
                 [user_run_id |-> run.id,
                  clip_prediction_id |->
                     clip_predictions_from_soundevent(
                         clip_prediction', ret'.data.clip_predictions[i]).id]
                     \in user_run_prediction'
          /\ user_run_prediction \subseteq user_run_prediction']_vars

\* from_soundevent has linked clip prediction 1 to a run that existed before
\* the call and was linked to clip prediction 2 already.
C11_Witness ==
    /\ ret.op = "from_soundevent" /\ ret.kind = "ok"
    /\ ret.data.clip_predictions = <<1>>
    /\ {l.clip_prediction_id : l \in {x \in user_run_prediction : x.user_run_id = ret.obj.id}}
           = {201, 202}

(***************************************************************************)
(* sound_event_predictions: functions of a module.  get_by_id and           *)
(* get_by_uuid are cached by a whombat.cache.CacheCollection, whose source  *)
(* is not at hand: cached answers from its LRU cache and stores what it     *)
(* read, with_update writes the returned object to both caches under its id *)
(* and its uuid, with_clear removes it from both.                           *)
(***************************************************************************)
\* The uuids of the sound event predictions that callers pass.
SoundEventPredictionUUIDs == {1, 2}
\* The confidence scores.
Scores == {1, 2}
\* The clip prediction ids that callers pass; 201 is stored, 202 is not.
ClipPredictionIds == {201, 202}

\* The order in which the rows of a relationship are loaded: by primary key.
RECURSIVE RowsInOrder(_)
RowsInOrder(S) ==
    IF S = {} THEN <<>>
    ELSE LET first == CHOOSE x \in S :
                         \A y \in S : x.tag_id * 10 + x.score <= y.tag_id * 10 + y.score
         IN  <<first>> \o RowsInOrder(S \ {first})

\* prediction.predicted_tags: the SoundEventPredictionTag rows of the prediction.
predicted_tags(ptags, id) ==
    RowsInOrder({[tag_id |-> r.tag_id, score |-> r.score] :
                    r \in {x \in ptags : x.sound_event_prediction_id = id}})

\* schemas.SoundEventPrediction.model_validate(prediction)
prediction_validate(row, ptags) ==
    [id |-> row.id, uuid |-> row.uuid, val |-> row.val,
     tags |-> predicted_tags(ptags, row.id)]

\* common.get_object(session, models.SoundEventPrediction, id == ...): the
\* row, NoRow for NotFoundError.
get_object_by_id(rows, id) ==
    IF \E r \in rows : r.id = id
    THEN CHOOSE r \in rows : r.id = id
    ELSE NoRow

PRes(cu, ci, rows, ptags, out, ev) ==
    [cache |-> cu, by_id |-> ci, db |-> rows, tags |-> ptags, out |-> out, ev |-> ev]

\* caches.with_update: the object a call returns is written to both caches.
with_update(r) ==
    IF r.out.kind # "ok" THEN r
    ELSE [r EXCEPT !.cache = CacheSet(r.cache, r.out.obj.uuid, r.out.obj),
                   !.by_id = CacheSet(r.by_id, r.out.obj.id, r.out.obj),
                   !.ev = Evictee(r.cache, r.out.obj.uuid)]

\* caches.with_clear: the object a call returns is removed from both caches.
with_clear(r) ==
    IF r.out.kind # "ok" THEN r
    ELSE [r EXCEPT !.cache = Without(r.cache, r.out.obj.uuid),
                   !.by_id = Without(r.by_id, r.out.obj.id)]

get_by_id(cu, ci, rows, ptags, sound_event_id) ==
    IF CacheHas(ci, sound_event_id)
    THEN PRes(cu, CacheTouch(ci, sound_event_id), rows, ptags,
              Ok(CacheVal(ci, sound_event_id)), 0)
    ELSE LET row == get_object_by_id(rows, sound_event_id) IN
         IF row = NoRow
         THEN PRes(cu, ci, rows, ptags, Err("NotFoundError"), 0)
         ELSE LET obj == prediction_validate(row, ptags) IN
              PRes(cu, CacheSet(ci, sound_event_id, obj), rows, ptags, Ok(obj), 0)

get_by_uuid(cu, ci, rows, ptags, sound_event_uuid) ==
    IF CacheHas(cu, sound_event_uuid)
    THEN PRes(CacheTouch(cu, sound_event_uuid), ci, rows, ptags,
              Ok(CacheVal(cu, sound_event_uuid)), 0)
    ELSE LET row == get_object(rows, sound_event_uuid) IN
         IF row = NoRow
         THEN PRes(cu, ci, rows, ptags, Err("NotFoundError"), 0)
         ELSE LET obj == prediction_validate(row, ptags) IN
              PRes(CacheSet(cu, sound_event_uuid, obj), ci, rows, ptags, Ok(obj),
                   Evictee(cu, sound_event_uuid))

sound_event_predictions_create(cu, ci, rows, ptags, data) ==
    LET prediction == create_object(rows, data) IN
    with_update(
        IF prediction = NoRow
        THEN PRes(cu, ci, rows, ptags, Err("DuplicateObjectError"), 0)
        ELSE PRes(cu, ci, rows \cup {prediction}, ptags,
                  Ok(prediction_validate(prediction, ptags)), 0))

\* delete_object deletes the row, and with it the rows of its predicted tags.
sound_event_predictions_delete(cu, ci, rows, ptags, sound_event_prediction_id) ==
    LET prediction == get_object_by_id(rows, sound_event_prediction_id) IN
    with_clear(
        IF prediction = NoRow
        THEN PRes(cu, ci, rows, ptags, Err("NotFoundError"), 0)
        ELSE PRes(cu, ci, rows \ {prediction},
                  {x \in ptags : x.sound_event_prediction_id # sound_event_prediction_id},
                  Ok(prediction_validate(prediction, ptags)), 0))

\* A mutant: add_tag inserts the row without looking at the predicted tags.
sound_event_predictions_add_tagUnchecked(cu, ci, rows, ptags, sound_event_prediction_id, tag_id, score) ==
    LET prediction == get_object_by_id(rows, sound_event_prediction_id) IN
    with_update(
        IF prediction = NoRow
        THEN PRes(cu, ci, rows, ptags, Err("NotFoundError"), 0)
        ELSE IF \E x \in ptags : /\ x.sound_event_prediction_id = sound_event_prediction_id
                                 /\ x.tag_id = tag_id
             THEN PRes(cu, ci, rows, ptags, Err("DuplicateObjectError"), 0)
             ELSE LET added == ptags \cup {[sound_event_prediction_id |->
                                                sound_event_prediction_id,
                                            tag_id |-> tag_id, score |-> score]}
                  IN  PRes(cu, ci, rows, added,
                           Ok(prediction_validate(prediction, added)), 0))

sound_event_predictions_add_tag(cu, ci, rows, ptags, sound_event_prediction_id, tag_id, score) ==
    LET prediction == get_object_by_id(rows, sound_event_prediction_id) IN
    with_update(
        IF prediction = NoRow
        THEN PRes(cu, ci, rows, ptags, Err("NotFoundError"), 0)
        ELSE IF \E i \in 1..Len(predicted_tags(ptags, prediction.id)) :
                    predicted_tags(ptags, prediction.id)[i].tag_id = tag_id
             THEN PRes(cu, ci, rows, ptags, Ok(prediction_validate(prediction, ptags)), 0)
             ELSE LET added == ptags \cup {[sound_event_prediction_id |->
                                                sound_event_prediction_id,
                                            tag_id |-> tag_id, score |-> score]}
                  IN  PRes(cu, ci, rows, added,
                           Ok(prediction_validate(prediction, added)), 0))

\* A mutant: remove_tag deletes every predicted tag of the prediction.
sound_event_predictions_remove_tagAll(cu, ci, rows, ptags, sound_event_prediction_id, tag_id) ==
    LET prediction == get_object_by_id(rows, sound_event_prediction_id) IN
    with_update(
        IF prediction = NoRow
        THEN PRes(cu, ci, rows, ptags, Err("NotFoundError"), 0)
        ELSE LET left == {x \in ptags :
                             x.sound_event_prediction_id # sound_event_prediction_id}
             IN  PRes(cu, ci, rows, left, Ok(prediction_validate(prediction, left)), 0))

\* A mutant: remove_tag without the with_update decorator, the caches keep
\* the objects they hold.
sound_event_predictions_remove_tagUncached(cu, ci, rows, ptags, sound_event_prediction_id, tag_id) ==
    LET prediction == get_object_by_id(rows, sound_event_prediction_id) IN
    IF prediction = NoRow
    THEN PRes(cu, ci, rows, ptags, Err("NotFoundError"), 0)
    ELSE LET left == {x \in ptags :
                         ~(/\ x.sound_event_prediction_id = sound_event_prediction_id
                           /\ x.tag_id = tag_id)}
         IN  PRes(cu, ci, rows, left, Ok(prediction_validate(prediction, left)), 0)

\* remove_tag: session.delete of each predicted tag with the tag id.
sound_event_predictions_remove_tag(cu, ci, rows, ptags, sound_event_prediction_id, tag_id) ==
    LET prediction == get_object_by_id(rows, sound_event_prediction_id) IN
    with_update(
        IF prediction = NoRow
        THEN PRes(cu, ci, rows, ptags, Err("NotFoundError"), 0)
        ELSE LET left == {x \in ptags :
                             ~(/\ x.sound_event_prediction_id = sound_event_prediction_id
                               /\ x.tag_id = tag_id)}
             IN  PRes(cu, ci, rows, left, Ok(prediction_validate(prediction, left)), 0))

\* create_from_soundevent: the clip prediction is read (NotFoundError when
\* it is not stored), the sound event is converted, the prediction is created.
create_from_soundevent(cu, ci, rows, ptags, cps, data, clip_prediction_id) ==
    IF ~\E cp \in cps : clip_predictions_from_soundevent(cps, cp).id = clip_prediction_id
    THEN PRes(cu, ci, rows, ptags, Err("NotFoundError"), 0)
    ELSE sound_event_predictions_create(cu, ci, rows, ptags,
                                        [uuid |-> data.uuid, val |-> data.score])

\* The loop of from_soundevent over data.tags: a tag whose (key, value) is
\* in existing_tags is skipped, any other is converted and added.
RECURSIVE from_soundevent_tags(_, _, _)
from_soundevent_tags(r, existing_tags, tags) ==
    IF tags = <<>> \/ r.out.kind # "ok" THEN r
    ELSE LET predicted_tag == Head(tags) IN
         IF predicted_tag.tag \in existing_tags
         THEN from_soundevent_tags(r, existing_tags, Tail(tags))
         ELSE from_soundevent_tags(
                  sound_event_predictions_add_tag(
                      r.cache, r.by_id, r.db, r.tags, r.out.obj.id,
                      tags_from_soundevent(predicted_tag.tag), predicted_tag.score),
                  existing_tags, Tail(tags))

\* A mutant: from_soundevent creates the prediction without looking for it.
sound_event_predictions_from_soundeventAlwaysCreate(cu, ci, rows, ptags, cps, data, clip_prediction_id) ==
    LET r == create_from_soundevent(cu, ci, rows, ptags, cps, data, clip_prediction_id) IN
    IF r.out.kind # "ok" THEN r
    ELSE from_soundevent_tags(
             r, {tags_to_soundevent(r.out.obj.tags[i].tag_id) :
                    i \in 1..Len(r.out.obj.tags)},
             data.tags)

sound_event_predictions_from_soundevent(cu, ci, rows, ptags, cps, data, clip_prediction_id) ==
    LET g == get_by_uuid(cu, ci, rows, ptags, data.uuid)
        r == IF g.out.kind = "NotFoundError"
             THEN create_from_soundevent(g.cache, g.by_id, rows, ptags, cps, data,
                                         clip_prediction_id)
             ELSE g
    IN  IF r.out.kind # "ok" THEN r
        ELSE from_soundevent_tags(
                 r, {tags_to_soundevent(r.out.obj.tags[i].tag_id) :
                        i \in 1..Len(r.out.obj.tags)},
                 data.tags)

\* The sound event predictions in soundevent format that callers pass.
PredictedTags == [tag : {tags_to_soundevent(t) : t \in TagIds}, score : Scores]

SoundEventPredictionData ==
    [uuid : SoundEventPredictionUUIDs, score : {1},
     tags : UNION {[1..n -> PredictedTags] : n \in 0..2}]

InitSoundEventPrediction ==
    /\ db = {}
    /\ cache = <<>>
    /\ ret = [op |-> "init", arg |-> 0, data |-> NoData, kind |-> "ok", obj |-> NoObj]
    /\ evicted = 0
    /\ lastMut = [op |-> "none", kind |-> "ok", obj |-> NoObj]
    /\ deleted = {}
    /\ evaluation_set_tag = NoTags
    /\ evaluation_set_annotation = {}
    /\ clip_prediction = {1}
    /\ user_run_prediction = {}
    /\ user = {}
    /\ sound_event_prediction_tag = {}
    /\ sound_event_prediction_by_id = <<>>
    /\ coroutines = <<>>
    /\ repeated = FALSE

PReturns(op, arg, data, r) ==
    /\ db' = r.db
    /\ cache' = r.cache
    /\ sound_event_prediction_by_id' = r.by_id
    /\ sound_event_prediction_tag' = r.tags
    /\ evicted' = r.ev
    /\ ret' = Outcome(op, arg, data, r.out)
    /\ repeated' = (ret.kind = "ok" /\ ret.op = op /\ ret.arg = arg /\ ret.data = data)
    /\ UNCHANGED <<lastMut, deleted, evaluation_set_tag, evaluation_set_annotation,
                   clip_prediction, user_run_prediction, user, coroutines>>

SEPGetById(id) ==
    PReturns("get_by_id", id, NoData,
             get_by_id(cache, sound_event_prediction_by_id, db,
                       sound_event_prediction_tag, id))

SEPGetByUuid(uuid) ==
    PReturns("get_by_uuid", uuid, NoData,
             get_by_uuid(cache, sound_event_prediction_by_id, db,
                         sound_event_prediction_tag, uuid))

SEPCreate(data) ==
    PReturns("create", data.uuid, NoData,
             sound_event_predictions_create(cache, sound_event_prediction_by_id, db,
                                            sound_event_prediction_tag, data))

SEPDelete(id) ==
    PReturns("delete", id, NoData,
             sound_event_predictions_delete(cache, sound_event_prediction_by_id, db,
                                            sound_event_prediction_tag, id))

SEPAddTag(id, tag_id, score) ==
    PReturns("add_tag", id, [tag_id |-> tag_id, score |-> score],
             sound_event_predictions_add_tag(cache, sound_event_prediction_by_id, db,
                                             sound_event_prediction_tag, id, tag_id, score))

SEPRemoveTag(id, tag_id) ==
    PReturns("remove_tag", id, [tag_id |-> tag_id],
             sound_event_predictions_remove_tag(cache, sound_event_prediction_by_id, db,
                                                sound_event_prediction_tag, id, tag_id))

SEPFromSoundevent(data, clip_prediction_id) ==
    PReturns("from_soundevent", clip_prediction_id, data,
             sound_event_predictions_from_soundevent(
                 cache, sound_event_prediction_by_id, db, sound_event_prediction_tag,
                 clip_prediction, data, clip_prediction_id))

\* The ids of the sound event predictions that callers pass.
SoundEventPredictionIds == {NextId({}, [uuid |-> u]) : u \in SoundEventPredictionUUIDs}

NextSoundEventPrediction ==
    \/ \E id \in SoundEventPredictionIds : SEPGetById(id)
    \/ \E uuid \in SoundEventPredictionUUIDs : SEPGetByUuid(uuid)
    \/ \E data \in [uuid : SoundEventPredictionUUIDs, val : {1}] : SEPCreate(data)
    \/ \E id \in SoundEventPredictionIds : SEPDelete(id)
    \/ \E id \in SoundEventPredictionIds, tag_id \in TagIds, score \in Scores :
          SEPAddTag(id, tag_id, score)
    \/ \E id \in SoundEventPredictionIds, tag_id \in TagIds : SEPRemoveTag(id, tag_id)
    \/ \E data \in SoundEventPredictionData, clip_prediction_id \in ClipPredictionIds :
          SEPFromSoundevent(data, clip_prediction_id)

SpecSoundEventPrediction == InitSoundEventPrediction /\ [][NextSoundEventPrediction]_vars

(***************************************************************************)
(* Claims about sound_event_predictions, checked under                      *)
(* SpecSoundEventPrediction.                                                *)
(***************************************************************************)
\* The SoundEventPredictionTag rows of prediction id with tag tag_id.
TagRows(ptags, id, tag_id) ==
    {x \in ptags : x.sound_event_prediction_id = id /\ x.tag_id = tag_id}

\* C12: from_soundevent returns whenever the prediction or the clip
\* prediction is stored; it creates one prediction when none has data.uuid
\* and none otherwise; when it returns, the prediction has exactly one
\* predicted tag for each (key, value) of data.tags, repeated in data.tags or
\* present before the call or not, and the returned object shows it; every
\* predicted tag row that existed before the call is still there with its
\* score; a repeated call changes nothing and returns the same object.
C12_FromSoundeventUpserts ==
    [][ret'.op = "from_soundevent" =>
          LET data == ret'.data
              before == get_object(db, data.uuid)
              after == get_object(db', data.uuid)
          IN  /\ (before # NoRow \/ ret'.arg = 201) => ret'.kind = "ok"
              /\ ret'.kind # "ok" =>
                    db' = db /\ sound_event_prediction_tag' = sound_event_prediction_tag
              /\ ret'.kind = "ok" =>
                    /\ after # NoRow /\ ret'.obj.uuid = data.uuid /\ ret'.obj.id = after.id
                    /\ Cardinality({r \in db' : r.uuid = data.uuid}) = 1
                    /\ db' = IF before = NoRow THEN db \cup {after} ELSE db
                    /\ \A i \in 1..Len(data.tags) :
                          LET tag_id == tags_from_soundevent(data.tags[i].tag) IN
                          /\ Cardinality(TagRows(sound_event_prediction_tag', after.id,
                                                 tag_id)) = 1
                          /\ Cardinality({j \in 1..Len(ret'.obj.tags) :
                                             ret'.obj.tags[j].tag_id = tag_id}) = 1
                    /\ sound_event_prediction_tag \subseteq sound_event_prediction_tag'
                    /\ ret'.obj = prediction_validate(after, sound_event_prediction_tag')
                    /\ repeated' =>
                          /\ ret'.obj = ret.obj /\ db' = db
                          /\ sound_event_prediction_tag' = sound_event_prediction_tag]_vars

\* from_soundevent has returned for data that names the same (key, value)
\* twice with two scores, on a prediction that had that tag already with
\* the second score: the first score was not written.
C12_Witness ==
    /\ ret.op = "from_soundevent" /\ ret.kind = "ok" /\ ~repeated
    /\ Len(ret.data.tags) = 2
    /\ ret.data.tags[1].tag = ret.data.tags[2].tag
    /\ ret.data.tags[1].score = 1 /\ ret.data.tags[2].score = 2
    /\ Len(ret.obj.tags) = 1 /\ ret.obj.tags[1].score = 2

\* C13: add_tag with a tag id that is among the predicted tags of the stored
\* prediction raises nothing, leaves the SoundEventPredictionTag rows as they
\* are (no new row, the score of the existing row kept) and returns the
\* prediction with the same predicted tags.
C13_AddTagIdempotent ==
    [][(/\ ret'.op = "add_tag"
        /\ get_object_by_id(db, ret'.arg) # NoRow
        /\ TagRows(sound_event_prediction_tag, ret'.arg, ret'.data.tag_id) # {}) =>
          /\ ret'.kind = "ok"
          /\ sound_event_prediction_tag' = sound_event_prediction_tag
          /\ db' = db
          /\ ret'.obj.id = ret'.arg
          /\ ret'.obj.tags = predicted_tags(sound_event_prediction_tag, ret'.arg)]_vars

\* add_tag has been called with score 2 for a tag that the prediction has
\* with score 1, next to another tag.
C13_Witness ==
    /\ ret.op = "add_tag" /\ ret.kind = "ok" /\ ret.data.score = 2
    /\ Len(ret.obj.tags) = 2
    /\ \E i \in 1..2 : ret.obj.tags[i] = [tag_id |-> ret.data.tag_id, score |-> 1]

\* C14: remove_tag with a tag id that is not among the predicted tags of the
\* stored prediction raises nothing and leaves the rows and the returned
\* predicted tags as they are; remove_tag never removes a row of another tag
\* id or of another prediction; a second remove_tag with the same prediction
\* id and tag id returns the same prediction as the first.
C14_RemoveTagIdempotent ==
    [][(ret'.op = "remove_tag" /\ get_object_by_id(db, ret'.arg) # NoRow) =>
          /\ ret'.kind = "ok"
          /\ db' = db
          /\ sound_event_prediction_tag' =
                sound_event_prediction_tag
                    \ TagRows(sound_event_prediction_tag, ret'.arg, ret'.data.tag_id)
          /\ ret'.obj = prediction_validate(get_object_by_id(db, ret'.arg),
                                            sound_event_prediction_tag')
          /\ TagRows(sound_event_prediction_tag, ret'.arg, ret'.data.tag_id) = {} =>
                /\ sound_event_prediction_tag' = sound_event_prediction_tag
                /\ ret'.obj.tags = predicted_tags(sound_event_prediction_tag, ret'.arg)
          /\ repeated' => ret'.obj = ret.obj]_vars

\* remove_tag has been repeated on a prediction that keeps its other tag.
C14_Witness ==
    /\ ret.op = "remove_tag" /\ ret.kind = "ok" /\ repeated
    /\ Len(ret.obj.tags) = 1 /\ ret.obj.tags[1].tag_id # ret.data.tag_id

(***************************************************************************)
(* BaseAPI.get_many and BaseAPI.create_many_without_duplicates.  They hand  *)
(* their arguments to get_objects and create_objects_without_duplicates of  *)
(* whombat.api.common.utils, whose bodies are not part of the sources at    *)
(* hand, and validate what comes back.  Neither touches the cache.          *)
(***************************************************************************)
\* The largest limit and offset that callers pass.
MaxLimit == 2

\* An optional integer: None, or the integer.
None == {}
Some(n) == {n}
ValueOf(x) == CHOOSE n \in x : TRUE

\* limit: int | None, with -1 as the callers' "no limit"; offset: int | None.
Limits == {None} \cup {Some(n) : n \in -1..MaxLimit}
Offsets == {None} \cup {Some(n) : n \in 0..MaxLimit}
\* filters: the values of the column that the filter lets through.
Filters == {Vals, {"a"}}
\* sort_by: None (the order of the primary key), a column, or "-" and a column.
SortBys == {"None", "uuid"}

\* The position of a row in the ordered listing.
SortKey(r, sort_by) ==
    IF sort_by = "uuid" THEN r.uuid ELSE r.id

RECURSIVE Sorted(_, _)
Sorted(S, sort_by) ==
    IF S = {} THEN <<>>
    ELSE LET first == CHOOSE x \in S :
                         \A y \in S : SortKey(x, sort_by) <= SortKey(y, sort_by)
         IN  <<first>> \o Sorted(S \ {first}, sort_by)

\* get_objects(session, model, limit, offset, filters, sort_by): the rows
\* that pass the filters, ordered, from offset on and limit of them at most
\* (all of them for no limit), and the number of rows that pass the filters.
get_objects(rows, limit, offset, filters, sort_by) ==
    LET matching == {r \in rows : r.val \in filters}
        listing == Sorted(matching, sort_by)
        skip == IF offset = None THEN 0 ELSE ValueOf(offset)
        upto == IF limit = None \/ ValueOf(limit) < 0
                THEN Len(listing)
                ELSE IF skip + ValueOf(limit) < Len(listing)
                     THEN skip + ValueOf(limit)
                     ELSE Len(listing)
    IN  [objs |-> SubSeq(listing, skip + 1, upto), count |-> Cardinality(matching)]

\* A mutant: get_many counts the objects of the page it returns.
get_manyCountsPage(api, rows, trs, limit, offset, filters, sort_by) ==
    IF ~HasModel(api) THEN Err("AttributeError")
    ELSE LET r == get_objects(rows, limit, offset, filters, sort_by) IN
         Ok([objs |-> [i \in 1..Len(r.objs) |-> model_validate(r.objs[i], trs)],
             count |-> Len(r.objs)])

\* A mutant: get_many reads with the default limit and offset.
get_manyDefaultPage(api, rows, trs, limit, offset, filters, sort_by) ==
    IF ~HasModel(api) THEN Err("AttributeError")
    ELSE LET r == get_objects(rows, Some(1000), Some(0), filters, sort_by) IN
         Ok([objs |-> [i \in 1..Len(r.objs) |-> model_validate(r.objs[i], trs)],
             count |-> r.count])

\* get_many: what it returns, (objs, count), or raises.
get_many(api, rows, trs, limit, offset, filters, sort_by) ==
    IF ~HasModel(api) THEN Err("AttributeError")
    ELSE LET r == get_objects(rows, limit, offset, filters, sort_by) IN
         Ok([objs |-> [i \in 1..Len(r.objs) |-> model_validate(r.objs[i], trs)],
             count |-> r.count])

\* The inputs whose key is not the key of an earlier input.
RECURSIVE remove_duplicates(_, _)
remove_duplicates(ds, seen) ==
    IF ds = <<>> THEN <<>>
    ELSE IF Head(ds).uuid \in seen
         THEN remove_duplicates(Tail(ds), seen)
         ELSE <<Head(ds)>> \o remove_duplicates(Tail(ds), seen \cup {Head(ds).uuid})

\* create_objects_without_duplicates(session, model, data, key, key_column,
\* return_all): the inputs whose key no row has are inserted; the rows
\* returned are the inserted ones, or with return_all every row that has the
\* key of an input.
create_objects_without_duplicates(rows, ds, return_all) ==
    LET existing == {r.uuid : r \in rows}
        missing == remove_duplicates(ds, existing)
        after == create_objects(rows, missing)
        keys == IF return_all
                THEN {ds[i].uuid : i \in 1..Len(ds)}
                ELSE {missing[i].uuid : i \in 1..Len(missing)}
    IN  [db |-> after, objs |-> Sorted({r \in after : r.uuid \in keys}, "None")]

\* A mutant: return_all is not handed on.
create_many_without_duplicatesCreatedOnly(api, c, rows, trs, ds, return_all) ==
    IF ~HasKeyFn(api) THEN Res(c, rows, Err("NotImplementedError"), 0)
    ELSE LET r == create_objects_without_duplicates(rows, ds, FALSE) IN
         Res(c, r.db,
             Ok([objs |-> [i \in 1..Len(r.objs) |-> model_validate(r.objs[i], trs)]]), 0)

\* create_many_without_duplicates: self._get_key_column() is called first.
create_many_without_duplicates(api, c, rows, trs, ds, return_all) ==
    IF ~HasKeyFn(api) THEN Res(c, rows, Err("NotImplementedError"), 0)
    ELSE LET r == create_objects_without_duplicates(rows, ds, return_all) IN
         Res(c, r.db,
             Ok([objs |-> [i \in 1..Len(r.objs) |-> model_validate(r.objs[i], trs)]]), 0)

\* The batches of create_many_without_duplicates: one or two objects, of
\* any uuids, with a value that no stored row has yet.
KeyedBatches == UNION {[1..n -> [uuid : UUIDs, val : {"b"}]] : n \in 1..2}

GetMany(api, limit, offset, filters, sort_by) ==
    /\ ret' = Outcome("get_many", api,
                      [limit |-> limit, offset |-> offset, filters |-> filters,
                       sort_by |-> sort_by],
                      get_many(api, db, evaluation_set_tag, limit, offset, filters, sort_by))
    /\ evicted' = 0
    /\ UNCHANGED <<db, cache, lastMut, deleted, joins, repeated>>

CreateManyWithoutDuplicates(api, ds, return_all) ==
    LET r == create_many_without_duplicates(api, cache, db, evaluation_set_tag, ds,
                                            return_all) IN
    /\ db' = r.db
    /\ cache' = r.cache
    /\ evicted' = r.ev
    /\ ret' = Outcome("create_many_without_duplicates", api,
                      [data |-> ds, return_all |-> return_all], r.out)
    /\ UNCHANGED <<lastMut, deleted, joins, repeated>>

NextMany ==
    \/ \E limit \in Limits, offset \in Offsets, filters \in Filters, sort_by \in SortBys :
          GetMany("keyed", limit, offset, filters, sort_by)
    \/ \E api \in {"keyed", "user_runs"}, ds \in KeyedBatches, return_all \in BOOLEAN :
          CreateManyWithoutDuplicates(api, ds, return_all)
    \/ \E ds \in Batches(db) : CreateMany(ds)

SpecMany == Init /\ [][NextMany]_vars

(***************************************************************************)
(* Claims about get_many and create_many_without_duplicates, checked under  *)
(* SpecMany.                                                                *)
(***************************************************************************)
\* The full listing of the call ret records: no limit, no offset.
FullListing ==
    get_many(ret.arg, db, evaluation_set_tag, None, Some(0), ret.data.filters,
             ret.data.sort_by).obj.objs

\* C15: the count that get_many returns is the number of stored objects that
\* pass the filters, which is the length of the listing with no limit and no
\* offset, whatever limit and offset were passed.
C15_CountIsTotal ==
    (ret.op = "get_many" /\ ret.kind = "ok") =>
        /\ ret.obj.count = Cardinality({r \in db : r.val \in ret.data.filters})
        /\ ret.obj.count = Len(FullListing)

\* get_many has returned a page shorter than its count, from an offset.
C15_Witness ==
    /\ ret.op = "get_many" /\ ret.kind = "ok"
    /\ ret.data.limit = Some(1) /\ ret.data.offset = Some(1)
    /\ ret.obj.count = 3 /\ Len(ret.obj.objs) = 1

\* C16: get_many with limit L >= 0 and offset O over the N objects that pass
\* the filters returns min(L, max(N - O, 0)) objects, the ones at positions
\* O+1 .. O+L of the full ordered listing; none when O >= N.
C16_LimitOffsetPage ==
    (/\ ret.op = "get_many" /\ ret.kind = "ok"
     /\ ret.data.limit # None /\ ret.data.offset # None
     /\ ValueOf(ret.data.limit) >= 0) =>
        LET L == ValueOf(ret.data.limit)
            O == ValueOf(ret.data.offset)
            N == Len(FullListing)
            left == IF N - O > 0 THEN N - O ELSE 0
            size == IF L < left THEN L ELSE left
        IN  /\ Len(ret.obj.objs) = size
            /\ \A i \in 1..size : ret.obj.objs[i] = FullListing[O + i]
            /\ O >= N => ret.obj.objs = <<>>

\* get_many has skipped one object and returned the next of three, one less
\* than were left.
C16_Witness ==
    /\ ret.op = "get_many" /\ ret.kind = "ok"
    /\ ret.data.limit = Some(1) /\ ret.data.offset = Some(1) /\ ret.data.sort_by = "uuid"
    /\ Len(FullListing) = 3 /\ Len(ret.obj.objs) = 1 /\ ret.obj.objs[1].uuid = 2

C18_AddClipPredictionLinked ==
    [][(/\ ret'.op = "add_clip_prediction"
        /\ [user_run_id |-> get_object(db, ret'.arg).id,
            clip_prediction_id |-> ret'.data.clip_prediction_id] \in user_run_prediction) =>
          /\ user_run_prediction' = user_run_prediction
          /\ db' = db /\ clip_prediction' = clip_prediction
          /\ IF ret'.data.raise_if_exists
             THEN ret'.kind = "DuplicateObjectError"
             ELSE /\ ret'.kind = "ok"
                  /\ ret'.obj = model_validate(get_object(db, ret'.arg),
                                               evaluation_set_tag)]_vars

\* add_clip_prediction has raised DuplicateObjectError for a linked pair.
C18_Witness ==
    /\ ret.op = "add_clip_prediction" /\ ret.kind = "DuplicateObjectError"
    /\ ret.data.raise_if_exists
    /\ [user_run_id |-> get_object(db, ret.arg).id,
        clip_prediction_id |-> ret.data.clip_prediction_id] \in user_run_prediction

(***************************************************************************)
(* EvaluationSetAPI.add_tag and remove_tag on one stored evaluation set,    *)
(* called with the copies of it that a caller may hold, older ones          *)
(* included.                                                                *)
(***************************************************************************)
InitEvaluationSetTags ==
    /\ InitEvaluationSet
    /\ Cardinality(db) = 1

\* The copies a caller read when the instance was made: the sets had no
\* tags then.
OlderCopies == {model_validate(r, NoTags) : r \in db}

NextEvaluationSetTags ==
    \/ \E pk \in SetUUIDs : ESGet(pk)
    \/ \E obj \in HeldSets \cup OlderCopies, tag \in TagIds : ESAddTag(obj, tag)
    \/ \E obj \in HeldSets \cup OlderCopies, tag \in TagIds : ESRemoveTag(obj, tag)

SpecEvaluationSetTags == InitEvaluationSetTags /\ [][NextEvaluationSetTags]_vars

\* C19 (as claimed): add_tag raises ValueError when the tag is in obj.tags,
\* and then the tables and the cache are unchanged; otherwise it creates one
\* EvaluationSetTag row and returns, and caches, obj with the tag appended to
\* obj.tags.
C19_AddTagAsClaimed ==
    [][ret'.op = "add_tag" =>
          LET obj == ret'.data.obj
              tag == ret'.data.tag
          IN  IF \E i \in 1..Len(obj.tags) : obj.tags[i] = tag
              THEN /\ ret'.kind = "ValueError"
                   /\ db' = db /\ evaluation_set_tag' = evaluation_set_tag
                   /\ cache' = cache
              ELSE /\ ret'.kind = "ok"
                   /\ evaluation_set_tag' =
                         [evaluation_set_tag EXCEPT ![obj.id] = Append(@, tag)]
                   /\ ret'.obj = [obj EXCEPT !.tags = Append(obj.tags, tag)]
                   /\ CacheHas(cache', obj.uuid)
                   /\ CacheVal(cache', obj.uuid) = ret'.obj]_vars

\* C19 (amended): as claimed, except that for a tag that is not in obj.tags
\* and is attached to the stored evaluation set (obj is an older copy)
\* add_tag raises DuplicateObjectError and changes neither the tables nor the
\* cache.
C19_AddTag ==
    [][ret'.op = "add_tag" =>
          LET obj == ret'.data.obj
              tag == ret'.data.tag
          IN  IF \E i \in 1..Len(obj.tags) : obj.tags[i] = tag
              THEN /\ ret'.kind = "ValueError"
                   /\ db' = db /\ evaluation_set_tag' = evaluation_set_tag
                   /\ cache' = cache
              ELSE IF \E i \in 1..Len(evaluation_set_tag[obj.id]) :
                         evaluation_set_tag[obj.id][i] = tag
                   THEN /\ ret'.kind = "DuplicateObjectError"
                        /\ db' = db /\ evaluation_set_tag' = evaluation_set_tag
                        /\ cache' = cache
                   ELSE /\ ret'.kind = "ok"
                        /\ db' = db
                        /\ evaluation_set_tag' =
                              [evaluation_set_tag EXCEPT ![obj.id] = Append(@, tag)]
                        /\ ret'.obj = [obj EXCEPT !.tags = Append(obj.tags, tag)]
                        /\ CacheHas(cache', obj.uuid)
                        /\ CacheVal(cache', obj.uuid) = ret'.obj]_vars

\* add_tag has raised DuplicateObjectError for an older copy of a set that
\* has the tag.
C19_Witness ==
    /\ ret.op = "add_tag" /\ ret.kind = "DuplicateObjectError"
    /\ ret.data.obj.tags = <<>>
    /\ evaluation_set_tag[ret.data.obj.id] # <<>>

(***************************************************************************)
(* Claims about the eviction order of the cache, checked under Spec.        *)
(***************************************************************************)
\* The keys of the cache, least recently used first.
KeySeq(c) == [i \in 1..Len(c) |-> c[i].key]

\* The call that has just ended was an access of key k: a hit or a write by
\* get, create, update or _update_cache.
Accessed(r, k) ==
    /\ r.arg = k
    /\ \/ r.op \in {"get", "create", "update"} /\ r.kind = "ok"
       \/ r.op = "_update_cache"

\* C20: an access of key k makes k the most recent entry and keeps the order
\* of the others; when k is new and the cache is full, exactly one entry is
\* evicted, the least recently accessed one, and otherwise none; a call that
\* is no access evicts nothing and keeps the order (a delete removes its key).
C20_LRUEviction ==
    [][/\ ret'.arg \notin UUIDs => (evicted' = 0 /\ KeySeq(cache') = KeySeq(cache))
       /\ \A k \in UUIDs :
          IF Accessed(ret', k)
          THEN /\ Len(cache') > 0 /\ cache'[Len(cache')].key = k
               /\ IF CacheHas(cache, k) \/ Len(cache) < maxsize
                  THEN /\ evicted' = 0
                       /\ KeySeq(Without(cache', k)) = KeySeq(Without(cache, k))
                  ELSE /\ evicted' = cache[1].key
                       /\ Len(cache') = Len(cache)
                       /\ KeySeq(Without(cache', k)) = KeySeq(Tail(cache))
          ELSE ret'.arg = k =>
                  /\ evicted' = 0
                  /\ KeySeq(cache') =
                        IF ret'.op = "delete" /\ ret'.kind = "ok"
                        THEN KeySeq(Without(cache, k))
                        ELSE KeySeq(cache)]_vars

\* A get that missed has evicted the entry that the last update had written,
\* the least recent one by then.
C20_Witness ==
    /\ ret.op = "get" /\ ret.kind = "ok" /\ evicted # 0
    /\ lastMut.op = "update" /\ lastMut.kind = "ok" /\ lastMut.obj.uuid = evicted
    /\ Len(cache) = maxsize /\ cache[Len(cache)].key = ret.arg

(***************************************************************************)
(* The mapped tables dataset and sound_event (whombat.database.models).     *)
(* In this specification db holds the rows of both tables,                  *)
(* [table, id, uuid, val]; val is the name of a dataset and the geometry of *)
(* a sound event.                                                           *)
(***************************************************************************)
\* The largest integer primary key the database gives to a row.
MaxRows == 2

Tables == {"dataset", "sound_event"}

\* Dataset.uuid is mapped with unique=True; SoundEvent.uuid is mapped with a
\* default only, the column carries no unique constraint.
uuid_unique(table) == table = "dataset"

\* Dataset.name is mapped with unique=True; SoundEvent.geometry is not.
val_unique(table) == table = "dataset"

RowsOf(rows, table) == {r \in rows : r.table = table}

\* The integer primary key the database gives to a new row of the table.
autoincrement(rows, table) ==
    IF RowsOf(rows, table) = {} THEN 1
    ELSE 1 + (CHOOSE i \in {r.id : r \in RowsOf(rows, table)} :
                 \A r \in RowsOf(rows, table) : r.id <= i)

\* INSERT of a row with the given uuid (passed by the caller, or drawn by
\* uuid4): the unique constraints of the table decide; rows is returned
\* unchanged for IntegrityError.
insert(rows, table, uuid, val) ==
    IF \/ uuid_unique(table) /\ \E r \in RowsOf(rows, table) : r.uuid = uuid
       \/ val_unique(table) /\ \E r \in RowsOf(rows, table) : r.val = val
    THEN rows
    ELSE rows \cup {[table |-> table, id |-> autoincrement(rows, table),
                     uuid |-> uuid, val |-> val]}

\* SELECT ... WHERE uuid = pk, the condition of _get_pk_condition.
select_by_uuid(rows, table, pk) == {r \in RowsOf(rows, table) : r.uuid = pk}

InitModels == Init

ModelReturns(op, arg, kind) ==
    /\ ret' = [op |-> op, arg |-> arg, data |-> NoData, kind |-> kind, obj |-> NoObj]
    /\ UNCHANGED <<cache, evicted, lastMut, deleted, joins, repeated>>

InsertRow(table, uuid, val) ==
    /\ autoincrement(db, table) <= MaxRows
    /\ db' = insert(db, table, uuid, val)
    /\ ModelReturns("insert", uuid, IF db' = db THEN "IntegrityError" ELSE "ok")

DeleteRow(r) ==
    /\ db' = db \ {r}
    /\ ModelReturns("delete", r.uuid, "ok")

NextModels ==
    \/ \E table \in Tables, uuid \in UUIDs, val \in Vals : InsertRow(table, uuid, val)
    \/ \E r \in db : DeleteRow(r)

SpecModels == InitModels /\ [][NextModels]_vars

\* C21: in every reachable database state no two rows of the same table
\* (dataset, sound_event) have the same uuid, so the condition uuid = pk
\* selects at most one row.
C21_UuidUnique ==
    \A table \in Tables, pk \in UUIDs :
        Cardinality(select_by_uuid(db, table, pk)) <= 1

(***************************************************************************)
(* Claims about BaseAPI.delete of a missing object, checked under Spec.     *)
(***************************************************************************)
\* C22 (as claimed): delete(obj) on an object that has no row in the database
\* succeeds: it raises no error and leaves the database unchanged.
C22_DeleteMissingSucceeds ==
    [][(ret'.op = "delete" /\ get_object(db, ret'.arg) = NoRow)
          => (ret'.kind = "ok" /\ db' = db)]_vars

(***************************************************************************)
(* EvaluationSetAPI._update_from_soundevent on one stored evaluation set.   *)
(* No method of the class calls it; here it is called directly.             *)
(***************************************************************************)
\* clip_annotations.from_soundevent(session, a): the id of the clip
\* annotation stored under a's uuid.
clip_annotations_from_soundevent(a) ==
    CHOOSE i \in AnnIds : clip_annotations_to_soundevent(i) = a

\* data.clip_annotations as the list the loop walks.
RECURSIVE AnnotationsInOrder(_)
AnnotationsInOrder(S) ==
    IF S = {} THEN <<>>
    ELSE LET first == CHOOSE x \in S : \A y \in S : x.uuid <= y.uuid
         IN  <<first>> \o AnnotationsInOrder(S \ {first})

\* The first loop: a tag whose (key, value) is not in _existing_tags is
\* converted and added to obj, the object of the last add_tag.
RECURSIVE _update_from_soundevent_tags(_, _, _)
_update_from_soundevent_tags(r, _existing_tags, evaluation_tags) ==
    IF evaluation_tags = <<>> \/ r.out.kind # "ok" THEN r
    ELSE LET t == Head(evaluation_tags) IN
         IF t \in _existing_tags
         THEN _update_from_soundevent_tags(r, _existing_tags, Tail(evaluation_tags))
         ELSE _update_from_soundevent_tags(
                  add_tag(r.cache, r.db, r.tags, r.anns, r.out.obj, tags_from_soundevent(t)),
                  _existing_tags, Tail(evaluation_tags))

\* The second loop: every clip annotation is converted and added.
RECURSIVE _update_from_soundevent_annotations(_, _)
_update_from_soundevent_annotations(r, clip_annotations) ==
    IF clip_annotations = <<>> \/ r.out.kind # "ok" THEN r
    ELSE _update_from_soundevent_annotations(
             [add_clip_annotation(r.cache, r.db, r.tags, r.anns, r.out.obj,
                                  clip_annotations_from_soundevent(Head(clip_annotations)))
                 EXCEPT !.ev = r.ev],
             Tail(clip_annotations))

\* _existing_tags is computed once, from the obj passed in.
_update_from_soundevent(c, rows, trs, ars, obj, data) ==
    _update_from_soundevent_annotations(
        _update_from_soundevent_tags(
            ERes(c, rows, trs, ars, Ok(obj), 0),
            {tags_to_soundevent(obj.tags[i]) : i \in 1..Len(obj.tags)},
            data.evaluation_tags),
        AnnotationsInOrder(data.clip_annotations))

\* The evaluation sets in soundevent format passed for obj: up to two
\* evaluation tags, which may repeat.
UpdateData(obj) ==
    [uuid : {obj.uuid}, val : {obj.val},
     evaluation_tags : UNION {[1..n -> {tags_to_soundevent(t) : t \in TagIds}] : n \in 0..2},
     clip_annotations : SUBSET {clip_annotations_to_soundevent(a) : a \in AnnIds}]

ESUpdateFromSoundevent(obj, data) ==
    LET r == _update_from_soundevent(cache, db, evaluation_set_tag,
                                     evaluation_set_annotation, obj, data) IN
    /\ EReturns("_update_from_soundevent", obj.uuid, [obj |-> obj, data |-> data], r)
    /\ evaluation_set_tag' = r.tags
    /\ evaluation_set_annotation' = r.anns

NextEvaluationSetUpdate ==
    \/ \E pk \in SetUUIDs : ESGet(pk)
    \/ \E obj \in HeldSets, tag \in TagIds : ESRemoveTag(obj, tag)
    \/ \E obj \in HeldSets : \E data \in UpdateData(obj) : ESUpdateFromSoundevent(obj, data)

SpecEvaluationSetUpdate == InitEvaluationSetTags /\ [][NextEvaluationSetUpdate]_vars

\* C23 (as claimed): _update_from_soundevent(obj, data) raises no error for
\* any data; afterwards every tag of data.evaluation_tags is attached to the
\* evaluation set exactly once and every clip annotation of
\* data.clip_annotations is a member of it exactly once; and a second
\* application, to the returned object, raises no error and leaves the
\* tables as the first left them.
C23_UpdateFromSoundeventIdempotent ==
    [][ret'.op = "_update_from_soundevent" =>
          LET obj == ret'.data.obj
              data == ret'.data.data
              again == _update_from_soundevent(cache', db', evaluation_set_tag',
                                               evaluation_set_annotation', ret'.obj, data)
          IN  /\ ret'.kind = "ok"
              /\ \A i \in 1..Len(data.evaluation_tags) :
                     Cardinality({j \in 1..Len(evaluation_set_tag'[obj.id]) :
                         evaluation_set_tag'[obj.id][j] =
                             tags_from_soundevent(data.evaluation_tags[i])}) = 1
              /\ \A a \in data.clip_annotations :
                     [evaluation_set_id |-> obj.id,
                      clip_annotation_id |-> clip_annotations_from_soundevent(a)]
                         \in evaluation_set_annotation'
              /\ again.out.kind = "ok"
              /\ again.tags = evaluation_set_tag'
              /\ again.anns = evaluation_set_annotation'
              /\ again.db = db']_vars

(***************************************************************************)
(* Claims about the two caches of sound_event_predictions, checked under    *)
(* SpecSoundEventPrediction.                                                *)
(***************************************************************************)
\* C24: right after create, add_tag or remove_tag has returned the prediction
\* p, get_by_id(p.id) and get_by_uuid(p.uuid) both return an object equal to
\* p; right after delete has returned p, both raise NotFoundError.
C24_CachesFollowMutations ==
    LET by_id == get_by_id(cache, sound_event_prediction_by_id, db,
                           sound_event_prediction_tag, ret.obj.id)
        by_uuid == get_by_uuid(cache, sound_event_prediction_by_id, db,
                               sound_event_prediction_tag, ret.obj.uuid)
    IN  /\ (ret.op \in {"create", "add_tag", "remove_tag"} /\ ret.kind = "ok")
               => (by_id.out = Ok(ret.obj) /\ by_uuid.out = Ok(ret.obj))
        /\ (ret.op = "delete" /\ ret.kind = "ok")
               => (by_id.out.kind = "NotFoundError" /\ by_uuid.out.kind = "NotFoundError")

\* remove_tag has returned a prediction that keeps one tag, another than the
\* one removed, and both caches hold the returned object.
C24_Witness ==
    /\ ret.op = "remove_tag" /\ ret.kind = "ok" /\ ~repeated
    /\ Len(ret.obj.tags) = 1
    /\ ret.obj.tags[1].tag_id # ret.data.tag_id
    /\ CacheHas(cache, ret.obj.uuid) /\ CacheVal(cache, ret.obj.uuid) = ret.obj
    /\ CacheHas(sound_event_prediction_by_id, ret.obj.id)
    /\ CacheVal(sound_event_prediction_by_id, ret.obj.id) = ret.obj

(***************************************************************************)
(* Claims about the coherence of the cache of EvaluationSetAPI, checked     *)
(* under SpecEvaluationSetTags.                                             *)
(***************************************************************************)
\* C25 (as claimed): with the calls issued one at a time, every cache entry
\* equals the stored state of its object: the row under its key exists and
\* the cached object is the row with the tags attached to it in the database,
\* also after add_tag or remove_tag was called with an older copy.
C25_CacheCoherent ==
    \A i \in 1..Len(cache) :
        /\ get_object(db, cache[i].key) # NoRow
        /\ cache[i].value = model_validate(get_object(db, cache[i].key), evaluation_set_tag)

(***************************************************************************)
(* BaseAPI with its calls running as concurrent coroutines on one instance  *)
(* (a UserRunAPI-like one, the module-level singleton shared by the         *)
(* requests).  A coroutine runs until it awaits its database call; the      *)
(* database executes the statement at some later step; the coroutine is     *)
(* resumed at a step after that.  The other coroutines run in between.      *)
(* The statements of the database are atomic.  ret is not used here: the    *)
(* outcome of a call is kept in the record of its coroutine.                *)
(***************************************************************************)
\* Number of coroutines that run calls at the same time.
NumCoroutines == 2

Coroutines == 1..NumCoroutines

\* The record of a coroutine.  pc is "done" (no call in progress, out is the
\* outcome of the last call), "await" (suspended at the awaited database
\* call, the statement has not run) or "resume" (the statement has run and
\* gave row, the coroutine has not been resumed).
Coroutine(op, pc, pk, data, row, out) ==
    [op |-> op, pc |-> pc, pk |-> pk, data |-> data, row |-> row, out |-> out]

NoUpdate == [val |-> ""]

InitConcurrent ==
    /\ db \in {StoredSets(S) : S \in SUBSET SetUUIDs}
    /\ cache = <<>>
    /\ ret = [op |-> "init", arg |-> 0, data |-> NoData, kind |-> "ok", obj |-> NoObj]
    /\ evicted = 0
    /\ lastMut = [op |-> "none", kind |-> "ok", obj |-> NoObj]
    /\ deleted = {}
    /\ evaluation_set_tag = NoTags
    /\ evaluation_set_annotation = {}
    /\ clip_prediction = {}
    /\ user_run_prediction = {}
    /\ user = {}
    /\ sound_event_prediction_tag = {}
    /\ sound_event_prediction_by_id = <<>>
    /\ coroutines = [t \in Coroutines |->
                        Coroutine("none", "done", 0, NoUpdate, NoRow, Ok(NoObj))]
    /\ repeated = FALSE

\* What a step of a coroutine leaves alone.
Step(t, rec) ==
    /\ coroutines' = [coroutines EXCEPT ![t] = rec]
    /\ UNCHANGED <<ret, lastMut, deleted, evaluation_set_tag, evaluation_set_annotation,
                   clip_prediction, user_run_prediction, user,
                   sound_event_prediction_tag, sound_event_prediction_by_id, repeated>>

\* get, up to its await: a hit returns the cached object at once, a miss
\* suspends the coroutine at get_object.
GetStart(t, pk) ==
    /\ coroutines[t].pc = "done"
    /\ IF CacheHas(cache, pk)
       THEN /\ cache' = CacheTouch(cache, pk)
            /\ Step(t, Coroutine("get", "done", pk, NoUpdate, NoRow, Ok(CacheVal(cache, pk))))
       ELSE /\ cache' = cache
            /\ Step(t, Coroutine("get", "await", pk, NoUpdate, NoRow, Ok(NoObj)))
    /\ UNCHANGED <<db, evicted>>

\* The database executes the SELECT of get_object.
GetQuery(t) ==
    /\ coroutines[t].op = "get" /\ coroutines[t].pc = "await"
    /\ Step(t, [coroutines[t] EXCEPT !.pc = "resume",
                                     !.row = get_object(db, coroutines[t].pk)])
    /\ UNCHANGED <<db, cache, evicted>>

\* get, after its await: NotFoundError is raised, or the row that was read
\* is validated, written to the cache and returned.
GetResume(t) ==
    LET c == coroutines[t] IN
    /\ c.op = "get" /\ c.pc = "resume"
    /\ IF c.row = NoRow
       THEN /\ Step(t, [c EXCEPT !.pc = "done", !.out = Err("NotFoundError")])
            /\ UNCHANGED <<cache, evicted>>
       ELSE LET data == model_validate(c.row, evaluation_set_tag) IN
            /\ cache' = CacheSet(cache, c.pk, data)
            /\ evicted' = Evictee(cache, c.pk)
            /\ Step(t, [c EXCEPT !.pc = "done", !.out = Ok(data)])
    /\ UNCHANGED db

\* delete, up to its await.
DeleteStart(t, obj) ==
    /\ coroutines[t].pc = "done"
    /\ Step(t, Coroutine("delete", "await", obj.uuid, NoUpdate, NoRow, Ok(NoObj)))
    /\ UNCHANGED <<db, cache, evicted>>

\* The database executes the DELETE of delete_object.
DeleteQuery(t) ==
    LET row == get_object(db, coroutines[t].pk) IN
    /\ coroutines[t].op = "delete" /\ coroutines[t].pc = "await"
    /\ db' = db \ {row}
    /\ Step(t, [coroutines[t] EXCEPT !.pc = "resume", !.row = row])
    /\ UNCHANGED <<cache, evicted>>

\* delete, after its await: NotFoundError is raised, or del self._cache[pk]
\* (KeyError when pk is not cached) and the deleted object is returned.
DeleteResume(t) ==
    LET c == coroutines[t] IN
    /\ c.op = "delete" /\ c.pc = "resume"
    /\ IF c.row = NoRow
       THEN /\ Step(t, [c EXCEPT !.pc = "done", !.out = Err("NotFoundError")])
            /\ cache' = cache
       ELSE IF ~CacheHas(cache, c.pk)
            THEN /\ Step(t, [c EXCEPT !.pc = "done", !.out = Err("KeyError")])
                 /\ cache' = cache
            ELSE /\ cache' = CacheDel(cache, c.pk)
                 /\ Step(t, [c EXCEPT !.pc = "done",
                                      !.out = Ok(model_validate(c.row, evaluation_set_tag))])
    /\ UNCHANGED <<db, evicted>>

\* update, up to its await.
UpdateStart(t, obj, data) ==
    /\ coroutines[t].pc = "done"
    /\ Step(t, Coroutine("update", "await", obj.uuid, data, NoRow, Ok(NoObj)))
    /\ UNCHANGED <<db, cache, evicted>>

\* The database executes the UPDATE of update_object.
UpdateQuery(t) ==
    LET c == coroutines[t]
        row == get_object(db, c.pk)
        updated == IF row = NoRow THEN NoRow ELSE [row EXCEPT !.val = c.data.val]
    IN  /\ c.op = "update" /\ c.pc = "await"
        /\ db' = IF row = NoRow THEN db ELSE (db \ {row}) \cup {updated}
        /\ Step(t, [c EXCEPT !.pc = "resume", !.row = updated])
        /\ UNCHANGED <<cache, evicted>>

\* update, after its await: NotFoundError is raised, or the updated row is
\* validated, written to the cache and returned.
UpdateResume(t) ==
    LET c == coroutines[t] IN
    /\ c.op = "update" /\ c.pc = "resume"
    /\ IF c.row = NoRow
       THEN /\ Step(t, [c EXCEPT !.pc = "done", !.out = Err("NotFoundError")])
            /\ UNCHANGED <<cache, evicted>>
       ELSE LET obj == model_validate(c.row, evaluation_set_tag) IN
            /\ cache' = CacheSet(cache, c.pk, obj)
            /\ evicted' = Evictee(cache, c.pk)
            /\ Step(t, [c EXCEPT !.pc = "done", !.out = Ok(obj)])
    /\ UNCHANGED db

\* Coroutines that call get and delete.
NextGetDelete ==
    \E t \in Coroutines :
        \/ \E pk \in SetUUIDs : GetStart(t, pk)
        \/ GetQuery(t)
        \/ GetResume(t)
        \/ \E u \in SetUUIDs : DeleteStart(t, HeldFor(db, evaluation_set_tag, u))
        \/ DeleteQuery(t)
        \/ DeleteResume(t)

SpecGetDelete == InitConcurrent /\ [][NextGetDelete]_vars

\* Coroutines that call get and update.
NextGetUpdate ==
    \E t \in Coroutines :
        \/ \E pk \in SetUUIDs : GetStart(t, pk)
        \/ GetQuery(t)
        \/ GetResume(t)
        \/ \E u \in SetUUIDs, data \in UpdateSchema :
              UpdateStart(t, HeldFor(db, evaluation_set_tag, u), data)
        \/ UpdateQuery(t)
        \/ UpdateResume(t)

SpecGetUpdate == InitConcurrent /\ [][NextGetUpdate]_vars

\* C26 (as claimed): under every interleaving of get and delete, once a
\* delete has returned the deleted object the cache holds no entry for its
\* pk (no row is created here, so an entry would be the deleted object).
C26_DeletedNotCached ==
    \A t \in Coroutines :
        (/\ coroutines[t].op = "delete" /\ coroutines[t].pc = "done"
         /\ coroutines[t].out.kind = "ok")
            => ~CacheHas(cache, coroutines[t].pk)

\* C27 (as claimed): under every interleaving of get and update, once a get
\* and the update of the same object have both returned, the update being
\* the one whose row is stored, the cache entry for pk is the object the
\* update returned: a get that read the row before the update does not
\* overwrite it.
C27_CacheHoldsUpdated ==
    \A g, u \in Coroutines :
        (/\ coroutines[g].op = "get" /\ coroutines[g].pc = "done"
         /\ coroutines[g].out.kind = "ok"
         /\ coroutines[u].op = "update" /\ coroutines[u].pc = "done"
         /\ coroutines[u].out.kind = "ok"
         /\ coroutines[u].pk = coroutines[g].pk
         /\ coroutines[u].out.obj =
                model_validate(get_object(db, coroutines[u].pk), evaluation_set_tag))
            => /\ CacheHas(cache, coroutines[u].pk)
               /\ CacheVal(cache, coroutines[u].pk) = coroutines[u].out.obj

====
